---------------------------- MODULE Spec2Model ----------------------------
(***************************************************************************)
(* A model of the LoRA adapter injection / merge logic                     *)
(* (nemo/collections/llm/peft/lora.py) and of the FLOPs measurement        *)
(* callback (nemo/lightning/pytorch/callbacks/flops_callback.py), and of   *)
(* create_vision_mask_tensor (nemo/collections/vlm/llama/model/vision.py). *)
(*                                                                         *)
(* Python strings are modelled as sequences of one-character strings, so   *)
(* that substring tests, lower-casing and regular-expression matching are  *)
(* computed character by character as the library routines compute them.   *)
(* Python's None is the record [cls |-> "NoneType"] for objects and the    *)
(* one-element sequence NoneStr for optional strings.                      *)
(***************************************************************************)
EXTENDS Integers, Sequences, FiniteSets, TLC

VARIABLES
    lora,     \* the LoRA dataclass instance (lora.py:203-212)
    te,       \* import-time environment of lora.py: HAVE_TE, TP world size
    place,    \* name and prefix of the visited place of the model tree
    obj,      \* the object held at that place
    ret,      \* outcome of the last call on the LoRA side
    cb,       \* the FLOPsMeasurementCallback instance
    world,    \* process environment: torch.distributed, vocabulary sizes, loggers
    fs,       \* the log directory and the TensorBoard event files in it
    fret,     \* outcome of the last call on the callback side
    tokens,           \* the 1D tensor of token ids given to create_vision_mask_tensor
    vision_token_id,  \* the id of the vision token
    vision_masks      \* the tensor create_vision_mask_tensor returned

loraVars == <<lora, te, place, obj, ret>>
flopsVars == <<cb, world, fs, fret>>
visionVars == <<tokens, vision_token_id, vision_masks>>
vars == <<lora, te, place, obj, ret, cb, world, fs, fret, tokens, vision_token_id, vision_masks>>

\* create_vision_mask_tensor is not called
VisionIdle ==
    /\ tokens = << >>
    /\ vision_token_id = 0
    /\ vision_masks = [op |-> "none"]

(***************************************************************************)
(* Bounds of the model.                                                    *)
(***************************************************************************)
MaxLayerDigits == 2   \* layer indices have at most this many decimal digits
MaxVal == 1           \* tensor entries and activations range over 0..MaxVal
MaxSteps == 3         \* at most this many recorded step times
MaxTime == 2          \* a step time is k/8 s with 0 <= k <= MaxTime

(***************************************************************************)
(* Strings.                                                                *)
(***************************************************************************)
NoneStr == <<"<None>">>
NoneObj == [cls |-> "NoneType"]

EmptyStr == << >>
Dot == <<".">>
W_None == <<"N", "o", "n", "e">>
W_m == <<"m">>
W_a == <<"a">>
W_x == <<"x">>
W_layers == <<"l", "a", "y", "e", "r", "s">>
W_linear_qkv == <<"l", "i", "n", "e", "a", "r", "_", "q", "k", "v">>
W_linear_proj == <<"l", "i", "n", "e", "a", "r", "_", "p", "r", "o", "j">>
W_linear_fc1 == <<"l", "i", "n", "e", "a", "r", "_", "f", "c", "1">>
W_linear_fc2 == <<"l", "i", "n", "e", "a", "r", "_", "f", "c", "2">>
W_QKV == <<"Q", "K", "V">>
W_star == <<"*">>

\* str(x) inside an f-string: None prints as "None"
Str(s) == IF s = NoneStr THEN W_None ELSE s

\* truth value of an Optional[str]: None and "" are false
Truthy(s) == s # NoneStr /\ s # EmptyStr

UpperToLower ==
    [A |-> "a", B |-> "b", C |-> "c", D |-> "d", E |-> "e", F |-> "f",
     G |-> "g", H |-> "h", I |-> "i", J |-> "j", K |-> "k", L |-> "l",
     M |-> "m", N |-> "n", O |-> "o", P |-> "p", Q |-> "q", R |-> "r",
     S |-> "s", T |-> "t", U |-> "u", V |-> "v", W |-> "w", X |-> "x",
     Y |-> "y", Z |-> "z"]

\* str.lower()
Lower(s) ==
    [i \in 1..Len(s) |->
        IF s[i] \in DOMAIN UpperToLower THEN UpperToLower[s[i]] ELSE s[i]]

\* sub in s
Contains(sub, s) ==
    \E i \in 0..(Len(s) - Len(sub)) : SubSeq(s, i + 1, i + Len(sub)) = sub

\* the elements of a Python list
Elems(list) == {list[i] : i \in 1..Len(list)}

(***************************************************************************)
(* wildcard_match: the pattern is turned into a regular expression by      *)
(* replacing every star with a group matching any run of characters and    *)
(* anchoring it; every other character keeps its regular-expression        *)
(* meaning.  Patterns here are built from letters, digits, underscore, dot *)
(* and star, so the only metacharacter besides the star is the dot, which  *)
(* matches any one character.                                              *)
(***************************************************************************)
\* an atom is a set of admissible characters, taken once ("set"), any
\* character taken once ("any"), one or more of a set ("plus") or any run of
\* characters ("star")
Atom(k, c) == [k |-> k, c |-> c]
Lit(w) == [i \in 1..Len(w) |-> Atom("set", {w[i]})]

RegexCompile(pattern) ==
    [i \in 1..Len(pattern) |->
        IF pattern[i] = "*" THEN Atom("star", {})
        ELSE IF pattern[i] = "." THEN Atom("any", {})
        ELSE Atom("set", {pattern[i]})]

\* the positions of key one step of atom a leads to from the positions S
StepAtom(a, key, S) ==
    IF a.k = "star" THEN {j \in 0..Len(key) : \E s \in S : s <= j}
    ELSE IF a.k = "any" THEN {s + 1 : s \in {t \in S : t < Len(key)}}
    ELSE IF a.k = "plus" THEN
        {j \in 1..Len(key) : \E s \in S :
            s < j /\ \A q \in (s + 1)..j : key[q] \in a.c}
    ELSE {s + 1 : s \in {t \in S : t < Len(key) /\ key[t + 1] \in a.c}}

\* the positions of key the atoms re[lo..hi] lead to from the positions S
\* (the range is halved to keep the evaluation shallow; no atom leads
\* anywhere from no position)
RECURSIVE ReRange(_, _, _, _, _)
ReRange(re, key, lo, hi, S) ==
    IF S = {} THEN {}
    ELSE IF lo > hi THEN S
    ELSE IF lo = hi THEN StepAtom(re[lo], key, S)
    ELSE ReRange(re, key, ((lo + hi) \div 2) + 1, hi,
                 ReRange(re, key, lo, (lo + hi) \div 2, S))

\* regex_pattern.match(key) is not None, for an expression anchored at the end
RegexFullMatch(re, key) == Len(key) \in ReRange(re, key, 1, Len(re), {0})

\* wildcard_match returns None (false) for a None key
wildcard_match(pattern, key) ==
    IF key = NoneStr THEN FALSE
    ELSE RegexFullMatch(RegexCompile(pattern), key)

(***************************************************************************)
(* Exact rational arithmetic, for alpha / dim and the FLOPs formulas.      *)
(* A rational is [n |-> numerator, d |-> denominator], d > 0, in lowest    *)
(* terms.  Floating-point rounding is not modelled.                        *)
(***************************************************************************)
Abs(x) == IF x < 0 THEN -x ELSE x

RECURSIVE GCD(_, _)
GCD(a, b) == IF b = 0 THEN a ELSE GCD(b, a % b)

Rat(n, d) ==
    LET g == GCD(Abs(n), Abs(d))
        sgn == IF d < 0 THEN -1 ELSE 1
    IN  [n |-> sgn * (n \div g), d |-> sgn * (d \div g)]

RatInt(k) == [n |-> k, d |-> 1]
RatAdd(a, b) == Rat(a.n * b.d + b.n * a.d, a.d * b.d)
RatMul(a, b) == Rat(a.n * b.n, a.d * b.d)
RatDiv(a, b) == Rat(a.n * b.d, a.d * b.n)

\* tensors of rank 2 are sequences of rows of rationals
Rows(A) == Len(A)
Cols(A) == Len(A[1])
MatInt(A) == [i \in 1..Rows(A) |-> [j \in 1..Cols(A) |-> RatInt(A[i][j])]]
MatAdd(A, B) == [i \in 1..Rows(A) |-> [j \in 1..Cols(A) |-> RatAdd(A[i][j], B[i][j])]]
MatScale(c, A) == [i \in 1..Rows(A) |-> [j \in 1..Cols(A) |-> RatMul(c, A[i][j])]]

RECURSIVE DotRC(_, _, _, _, _)
DotRC(A, B, i, j, k) ==
    IF k = 0 THEN RatInt(0)
    ELSE RatAdd(DotRC(A, B, i, j, k - 1), RatMul(A[i][k], B[k][j]))

\* A @ B
MatMul(A, B) == [i \in 1..Rows(A) |-> [j \in 1..Cols(B) |-> DotRC(A, B, i, j, Cols(A))]]

ZeroMat(r, c) == [i \in 1..r |-> [j \in 1..c |-> RatInt(0)]]
IntMats(r, c) == {MatInt(A) : A \in [1..r -> [1..c -> 0..MaxVal]]}

(***************************************************************************)
(* Module objects.  isinstance is decided by cls: none of the supported    *)
(* linear classes derives from another one, and the wrappers created here  *)
(* derive from nn.Module only.  in_features / out_features also stand for  *)
(* input_size / output_size of the Megatron parallel linear layers.        *)
(***************************************************************************)
TECol == "TEColumnParallelLinear"
TELnCol == "TELayerNormColumnParallelLinear"
TERow == "TERowParallelLinear"
ColPar == "ColumnParallelLinear"
RowPar == "RowParallelLinear"
Linear == "Linear"
OtherModule == "Module"
TEClasses == {TECol, TELnCol, TERow}
ModuleClasses == {TECol, TELnCol, TERow, ColPar, RowPar, Linear, OtherModule}

NewModule(cls, sp, ub, w) ==
    [cls |-> cls, id |-> 1,
     in_features |-> Cols(w), out_features |-> Rows(w),
     weight |-> w, requires_grad |-> TRUE,
     return_layernorm_output |-> FALSE,
     return_layernorm_output_gathered |-> FALSE,
     sequence_parallel |-> sp, ub_overlap_ag |-> ub]

(***************************************************************************)
(* lora.py                                                                 *)
(***************************************************************************)
W_mlp == <<"m", "l", "p">>
W_experts == <<"e", "x", "p", "e", "r", "t", "s">>
W_local_experts == <<"l", "o", "c", "a", "l", "_">> \o W_experts
W_linear_fc == <<"l", "i", "n", "e", "a", "r", "_", "f", "c">>
W_qkv == <<"q", "k", "v">>
DigitChars == {"0", "1", "2", "3", "4", "5", "6", "7", "8", "9"}

\* the expression of is_expert_linear; the dot before the digits is unescaped
ExpertRegex ==
    <<Atom("star", {})>> \o Lit(W_mlp) \o Lit(Dot) \o Lit(W_experts) \o Lit(Dot)
    \o Lit(W_local_experts) \o <<Atom("any", {}), Atom("plus", DigitChars)>>
    \o Lit(Dot) \o Lit(W_linear_fc) \o <<Atom("set", {"1", "2"})>>

is_expert_linear(fqn) == RegexFullMatch(ExpertRegex, fqn)

\* a mutant of FullName: the prefix is ignored
FullNameWithoutPrefix(name, prefix) == name

\* full_name = f"{prefix}.{name}" if prefix else name
FullName(name, prefix) ==
    IF Truthy(prefix) THEN prefix \o Dot \o Str(name) ELSE name

\* the condition of line 236
IsTarget(self, name, prefix) ==
    \/ name \in Elems(self.target_modules)
    \/ \E i \in 1..Len(self.target_modules) :
          wildcard_match(self.target_modules[i], FullName(name, prefix))

\* LinearAdapter.__init__ / LinearAdapterForQKV.__init__: the original layer
\* is frozen; dropout_position is the constructor's own argument
LinearAdapterInit(adapter_cls, orig_linear, dim, alpha, dropout, dropout_position, lora_A_init_method) ==
    [cls |-> adapter_cls, id |-> orig_linear.id + 1,
     orig_linear |-> [orig_linear EXCEPT !.requires_grad = FALSE],
     dim |-> dim, scale |-> Rat(alpha, dim),
     dropout |-> dropout, dropout_position |-> dropout_position,
     lora_A_init_method |-> lora_A_init_method]

\* the call of lines 267-269: dropout_position is not passed, so the
\* constructor's default 'post' applies
LinearAdapterCall(adapter_cls, m, self) ==
    LinearAdapterInit(adapter_cls, m, self.dim, self.alpha, self.dropout, "post",
                      self.lora_A_init_method)

\* ParallelLinearAdapter(...) of lines 274-291: the keyword arguments as the
\* adapter keeps them; linear_out starts at zero (row_init_method 'zero'),
\* linear_in at the drawn initial value init_in
ParallelLinearAdapterCall(self, m, in_features, out_features, input_is_parallel, full_name, init_in) ==
    [cls |-> "ParallelLinearAdapter",
     in_features |-> in_features, out_features |-> out_features,
     dim |-> self.dim, alpha |-> self.alpha,
     column_init_method |-> self.lora_A_init_method,
     row_init_method |-> self.lora_B_init_method,
     input_is_parallel |-> input_is_parallel,
     dropout |-> self.dropout, dropout_position |-> self.dropout_position,
     is_expert |-> is_expert_linear(full_name),
     a2a_experimental |-> self.a2a_experimental,
     linear_in |-> init_in,
     linear_out |-> ZeroMat(m.out_features, self.dim)]

\* AdapterParallelAdd(m, adapter)
AdapterParallelAdd(m, adapter) ==
    [cls |-> "AdapterParallelAdd", id |-> m.id + 1, to_wrap |-> m,
     adapter |-> adapter, n_merged |-> 0]

Return(value, m_after) ==
    [kind |-> "return", exc |-> "", value |-> value, m_after |-> m_after]
Raise(exc, m_after) ==
    [kind |-> "raise", exc |-> exc, value |-> NoneObj, m_after |-> m_after]

\* a mutant of UnsupportedLayer: the module is handed back instead
UnsupportedLayerReturned(m) == Return(m, m)

\* the else branch of lines 270-271
UnsupportedLayer(m) == Raise("NotImplementedError", m)

\* the branch of a target module, lines 237-292
TransformTarget(self, env, m, name, prefix, init_in) ==
    LET full_name == FullName(name, prefix)
        wrap(mm, inf, outf, par) ==
            Return(AdapterParallelAdd(mm,
                       ParallelLinearAdapterCall(self, mm, inf, outf, par,
                                                 full_name, init_in)), mm)
    IN  IF (env.HAVE_TE /\ m.cls = TECol) \/ m.cls = TELnCol THEN
            LET m1 == [m EXCEPT !.return_layernorm_output = TRUE]
                m2 == IF m.sequence_parallel /\ ~m.ub_overlap_ag
                      THEN [m1 EXCEPT !.return_layernorm_output_gathered = TRUE]
                      ELSE m1
            IN  wrap(m2, m.in_features, m.out_features * env.tp_size, FALSE)
        ELSE IF env.HAVE_TE /\ m.cls = TERow THEN
            wrap(m, m.in_features * env.tp_size, m.out_features, TRUE)
        ELSE IF m.cls = ColPar THEN
            wrap(m, m.in_features, m.out_features, FALSE)
        ELSE IF m.cls = RowPar THEN
            wrap(m, m.in_features, m.out_features, TRUE)
        ELSE IF m.cls = Linear THEN
            LET adapter_cls == IF Contains(W_qkv, Lower(full_name))
                               THEN "LinearAdapterForQKV" ELSE "LinearAdapter"
                a == LinearAdapterCall(adapter_cls, m, self)
            IN  Return(a, a.orig_linear)
        ELSE UnsupportedLayer(m)

\* LoRA.transform(m, name, prefix)
LoRA_transform(self, env, m, name, prefix, init_in) ==
    IF IsTarget(self, name, prefix)
    THEN TransformTarget(self, env, m, name, prefix, init_in)
    ELSE Return(m, m)

\* a mutant of LoraWeight: the scaling factor is inverted
LoraWeightInverseScale(adapter) ==
    MatMul(MatScale(Rat(adapter.dim, adapter.alpha), adapter.linear_out),
           adapter.linear_in)

\* lora_weight of lines 325-330: /, * and @ associate to the left, so the
\* scaled linear_out is multiplied with linear_in
LoraWeight(adapter) ==
    MatMul(MatScale(Rat(adapter.alpha, adapter.dim), adapter.linear_out),
           adapter.linear_in)

\* LoRAMerge.transform(m, name, prefix); name and prefix are only logged
LoRAMerge_transform(m) ==
    IF m.cls # "AdapterParallelAdd" THEN Return(m, m)
    ELSE LET base_weight == m.to_wrap.weight
             merged_weight == MatAdd(base_weight, LoraWeight(m.adapter))
             m1 == [m EXCEPT !.to_wrap.weight = merged_weight,
                             !.n_merged = @ + 1]
         IN  Return(m1, m1)

\* a mutant of AdapterParallelAdd_forward: the adapter is fed x
AdapterParallelAdd_forwardOfInput(x, base, adapter) ==
    <<base[1] + adapter[x], base[2]>>

\* AdapterParallelAdd.forward(x): base is the triple base_linear_forward(x)
\* returns, adapter the function the adapter module computes
AdapterParallelAdd_forward(x, base, adapter) ==
    LET linear_output == base[1]
        bias == base[2]
        layernorm_output == base[3]
        adapter_output == adapter[layernorm_output]
    IN  <<linear_output + adapter_output, bias>>

\* LinearAdapter.forward / LinearAdapterForQKV.forward: the operations applied
\* on the low-rank branch, in order; the result adds the branch to orig_linear(x)
LinearAdapter_forward(self) ==
    (IF self.dropout_position = "pre" THEN <<"dropout">> ELSE << >>)
    \o <<"lora_a", "lora_b", "scale">>
    \o (IF self.cls = "LinearAdapterForQKV" THEN <<"concat">> ELSE << >>)
    \o (IF self.dropout_position = "post" THEN <<"dropout">> ELSE << >>)

(***************************************************************************)
(* Inputs of the LoRA side.                                                *)
(***************************************************************************)
LayerDigits == {"0", "1", "2"}

\* decimal layer indices of at most MaxLayerDigits digits, without leading zero
LayerIdx ==
    UNION {{d \in [1..n -> LayerDigits] : n = 1 \/ d[1] # "0"} :
              n \in 1..MaxLayerDigits}

LayerPrefix(i) == W_m \o Dot \o W_layers \o Dot \o i \o Dot \o W_a
ExpertPrefix == W_m \o Dot \o W_mlp \o Dot \o W_experts \o Dot \o W_local_experts
                \o Dot \o <<"0">>

Place(name, prefix) == [name |-> name, prefix |-> prefix]

\* the (name, prefix) pairs of the places the walk may visit
NamesLoRA ==
    {Place(n, LayerPrefix(i)) : n \in {W_linear_qkv, W_linear_proj}, i \in LayerIdx}
    \cup {Place(n, pf) : n \in {NoneStr, W_linear_qkv, W_linear_proj, W_QKV, W_x},
                         pf \in {NoneStr, EmptyStr, W_m}}
    \cup {Place(W_linear_fc1, ExpertPrefix)}

T_default == <<W_linear_qkv, W_linear_proj, W_linear_fc1, W_linear_fc2>>
T_layers01 ==
    << W_star \o Dot \o W_layers \o Dot \o <<"0">> \o Dot \o W_star \o Dot \o W_linear_qkv,
       W_star \o Dot \o W_layers \o Dot \o <<"1">> \o Dot \o W_star \o Dot \o W_linear_qkv >>
T_wild == << W_star \o Dot \o W_linear_proj, W_QKV >>
T_empty == << >>

LoRAConfig(targets, dim, alpha, pos) ==
    [target_modules |-> targets, dim |-> dim, alpha |-> alpha, dropout |-> 0,
     dropout_position |-> pos, lora_A_init_method |-> "xavier",
     lora_B_init_method |-> "zero", a2a_experimental |-> FALSE]

W0 == MatInt(<< <<1>>, <<0>> >>)

ModsLoRA ==
    {NewModule(TELnCol, sp, ub, W0) : sp \in BOOLEAN, ub \in BOOLEAN}
    \cup {NewModule(TECol, sp, FALSE, W0) : sp \in BOOLEAN}
    \cup {NewModule(c, FALSE, FALSE, W0) : c \in ModuleClasses \ {TECol, TELnCol}}

InFeatures(m) == IF m.cls \in ModuleClasses THEN m.in_features ELSE 1

(***************************************************************************)
(* Actions of the LoRA side.  The model tree is one place, named           *)
(* place.name under place.prefix, holding obj; a walk of the tree calls    *)
(* the transform on the object held there and puts the returned object in  *)
(* its place.                                                              *)
(***************************************************************************)

\* one call of LoRA.transform by the model walk; init_in is the random
\* initial value of the adapter's linear_in
LoRATransform ==
    \E init_in \in IntMats(lora.dim, InFeatures(obj)) :
        /\ LET r == LoRA_transform(lora, te, obj, place.name, place.prefix, init_in)
           IN  /\ obj' = IF r.kind = "return" THEN r.value ELSE r.m_after
               /\ ret' = [op |-> "LoRA.transform", m |-> obj, kind |-> r.kind,
                          exc |-> r.exc, value |-> r.value, m_after |-> r.m_after]
        /\ UNCHANGED <<lora, te, place>>
        /\ UNCHANGED <<flopsVars, visionVars>>

\* a forward pass through a LinearAdapter created by LoRA.transform
LinearAdapterForward ==
    /\ obj.cls \in {"LinearAdapter", "LinearAdapterForQKV"}
    /\ ret' = [op |-> "LinearAdapter.forward", self |-> obj,
               branch |-> LinearAdapter_forward(obj)]
    /\ UNCHANGED <<lora, te, place, obj>>
    /\ UNCHANGED <<flopsVars, visionVars>>

FlopsIdle ==
    /\ cb = NoneObj
    /\ world = [initialized |-> FALSE]
    /\ fs = [dir |-> EmptyStr, entries |-> {}]
    /\ fret = [op |-> "none"]

LoRAIdle ==
    /\ lora = NoneObj
    /\ te = [HAVE_TE |-> FALSE, tp_size |-> 1]
    /\ place = Place(NoneStr, NoneStr)
    /\ obj = NoneObj
    /\ ret = [op |-> "none"]

InitLoRA ==
    /\ lora \in {LoRAConfig(t, 1, 2, pos) :
                    t \in {T_default, T_layers01, T_wild, T_empty},
                    pos \in {"pre", "post"}}
    /\ te \in [HAVE_TE : BOOLEAN, tp_size : {1, 2}]
    /\ place \in NamesLoRA
    /\ obj \in {m \in ModsLoRA : m.cls \in TEClasses => te.HAVE_TE}
    /\ ret = [op |-> "none"]
    /\ FlopsIdle
    /\ VisionIdle

NextLoRA ==
    \/ LoRATransform
    \/ LinearAdapterForward

SpecLoRA == InitLoRA /\ [][NextLoRA]_vars

(***************************************************************************)
(* Properties of LoRA.transform.                                           *)
(***************************************************************************)
SupportedClasses == {TECol, TELnCol, TERow, ColPar, RowPar, Linear}

\* the full name as the claims state it: prefix + "." + name when the prefix
\* is non-empty, otherwise the name
StatedFullName ==
    IF place.prefix # NoneStr /\ Len(place.prefix) > 0
    THEN place.prefix \o Dot \o (IF place.name = NoneStr THEN W_None ELSE place.name)
    ELSE place.name

StatedTarget ==
    \/ \E i \in 1..Len(lora.target_modules) : lora.target_modules[i] = place.name
    \/ \E i \in 1..Len(lora.target_modules) :
          wildcard_match(lora.target_modules[i], StatedFullName)

\* the last transform call handed back its argument itself
ReturnedSame == ret.kind = "return" /\ ret.value.id = ret.m.id

IsLayerQkv(i) == place = Place(W_linear_qkv, LayerPrefix(i))

\* C2: with target_modules = ['*.layers.0.*.linear_qkv',
\* '*.layers.1.*.linear_qkv'] a linear_qkv module of layer i is wrapped iff i
\* is 0 or 1; linear_qkv modules of any other layer come back unchanged.
C2_OnlyFirstTwoLayers ==
    (/\ ret.op = "LoRA.transform"
     /\ lora.target_modules = T_layers01
     /\ ret.m.cls \in SupportedClasses) =>
        \A i \in LayerIdx :
            IsLayerQkv(i) =>
                /\ ~ReturnedSame <=> i \in {<<"0">>, <<"1">>}
                /\ i \notin {<<"0">>, <<"1">>} => ret.value = ret.m

\* C3: a target module of none of the supported linear types makes
\* LoRA.transform raise NotImplementedError and return nothing; a module that
\* is not a target never makes it raise.
C3_UnsupportedTargetRaises ==
    ret.op = "LoRA.transform" =>
        /\ (StatedTarget /\ ret.m.cls \notin SupportedClasses) =>
              /\ ret.kind = "raise"
              /\ ret.exc = "NotImplementedError"
              /\ ret.value = NoneObj
              /\ obj = ret.m
        /\ ~StatedTarget => ret.kind # "raise"

\* C3 witness: a target module of an unsupported type was rejected
C3_Witness ==
    /\ ret.op = "LoRA.transform"
    /\ StatedTarget
    /\ ret.m.cls = OtherModule
    /\ ret.kind = "raise"
    /\ ret.exc = "NotImplementedError"

\* the dropout position an adapter built by LoRA.transform works with
CreatedDropoutPosition ==
    IF ret.value.cls = "AdapterParallelAdd"
    THEN ret.value.adapter.dropout_position
    ELSE ret.value.dropout_position

\* C4: every adapter LoRA.transform creates applies dropout at the position
\* configured in LoRA.dropout_position, for every supported layer type,
\* plain nn.Linear layers included: 'pre' puts the dropout first on the
\* low-rank branch, 'post' puts it last.
C4_DropoutPositionHonoured ==
    /\ (ret.op = "LoRA.transform" /\ ret.kind = "return" /\ ~ReturnedSame) =>
           CreatedDropoutPosition = lora.dropout_position
    /\ ret.op = "LinearAdapter.forward" =>
           /\ lora.dropout_position = "pre" => ret.branch[1] = "dropout"
           /\ lora.dropout_position = "post" =>
                  ret.branch[Len(ret.branch)] = "dropout"

(***************************************************************************)
(* Merging and running the wrapped module.                                 *)
(***************************************************************************)
MaxMerges == 2   \* LoRAMerge is applied to a wrapper at most this often

Activations == 0..MaxVal
\* an optional tensor: the empty sequence is None
OptionalActivations == {<< >>} \cup {<<v>> : v \in Activations}
\* the functions an adapter module may compute: the identity and a reversal
AdapterFunctions ==
    {[v \in Activations |-> v], [v \in Activations |-> MaxVal - v]}

\* one call of LoRAMerge.transform by the model walk
LoRAMergeTransform ==
    /\ obj.cls = "AdapterParallelAdd" => obj.n_merged < MaxMerges
    /\ LET r == LoRAMerge_transform(obj)
       IN  /\ obj' = r.value
           /\ ret' = [op |-> "LoRAMerge.transform", m |-> obj, kind |-> r.kind,
                      exc |-> r.exc, value |-> r.value, m_after |-> r.m_after]
    /\ UNCHANGED <<lora, te, place>>
    /\ UNCHANGED <<flopsVars, visionVars>>

\* training, which precedes merging: the optimizer rewrites one weight of
\* the adapter
Train ==
    /\ obj.cls = "AdapterParallelAdd"
    /\ obj.n_merged = 0
    /\ \/ \E w \in IntMats(Rows(obj.adapter.linear_in), Cols(obj.adapter.linear_in)) :
             obj' = [obj EXCEPT !.adapter.linear_in = w]
       \/ \E w \in IntMats(Rows(obj.adapter.linear_out), Cols(obj.adapter.linear_out)) :
             obj' = [obj EXCEPT !.adapter.linear_out = w]
    /\ ret' = [op |-> "train"]
    /\ UNCHANGED <<lora, te, place>>
    /\ UNCHANGED <<flopsVars, visionVars>>

\* one call of AdapterParallelAdd.forward(x): the wrapped module's
\* base_linear_forward(x) answers (linear_output, bias, layernorm_output) and
\* the adapter module computes the function adapter
AdapterParallelAddForward ==
    /\ obj.cls = "AdapterParallelAdd"
    /\ \E x \in Activations, linear_output \in Activations,
          bias \in OptionalActivations, layernorm_output \in Activations,
          adapter \in AdapterFunctions :
          ret' = [op |-> "AdapterParallelAdd.forward", x |-> x,
                  base |-> <<linear_output, bias, layernorm_output>>,
                  adapter |-> adapter,
                  out |-> AdapterParallelAdd_forward(
                              x, <<linear_output, bias, layernorm_output>>, adapter)]
    /\ UNCHANGED <<lora, te, place, obj>>
    /\ UNCHANGED <<flopsVars, visionVars>>

InitMerge ==
    /\ lora \in {LoRAConfig(T_default, 1, 2, "post"),
                 LoRAConfig(T_default, 2, 1, "post"),
                 LoRAConfig(T_default, 2, 3, "post")}
    /\ te = [HAVE_TE |-> TRUE, tp_size |-> 1]
    /\ place \in {Place(W_linear_qkv, NoneStr), Place(W_x, NoneStr)}
    /\ obj \in {NewModule(c, FALSE, FALSE, w) :
                   c \in {ColPar, TELnCol, Linear, OtherModule},
                   w \in IntMats(2, 1)}
    /\ ret = [op |-> "none"]
    /\ FlopsIdle
    /\ VisionIdle

\* wrapping, training and merging
NextMerge ==
    \/ LoRATransform
    \/ Train
    \/ LoRAMergeTransform

SpecMerge == InitMerge /\ [][NextMerge]_vars

\* wrapping and running the wrapped module
NextForward ==
    \/ LoRATransform
    \/ AdapterParallelAddForward

SpecForward == InitMerge /\ [][NextForward]_vars

\* C5: LoRAMerge.transform returns a module that is not an AdapterParallelAdd
\* unchanged; for an AdapterParallelAdd it sets to_wrap.weight to
\* base_weight + (alpha / dim) * (linear_out.weight @ linear_in.weight),
\* leaves the adapter as it was and returns the same wrapper object.
C5_MergedWeight ==
    ret.op = "LoRAMerge.transform" =>
        /\ ret.kind = "return"
        /\ obj = ret.value
        /\ ret.value.id = ret.m.id
        /\ ret.m.cls # "AdapterParallelAdd" => ret.value = ret.m
        /\ ret.m.cls = "AdapterParallelAdd" =>
              /\ ret.value.cls = "AdapterParallelAdd"
              /\ ret.value.adapter = ret.m.adapter
              /\ ret.value.to_wrap =
                    [ret.m.to_wrap EXCEPT !.weight =
                        MatAdd(ret.m.to_wrap.weight,
                               MatScale(Rat(ret.m.adapter.alpha, ret.m.adapter.dim),
                                        MatMul(ret.m.adapter.linear_out,
                                               ret.m.adapter.linear_in)))]

\* C5 witness: a trained adapter of rank 2 with alpha / dim = 3/2 was merged
\* and changed the base weight
C5_Witness ==
    /\ ret.op = "LoRAMerge.transform"
    /\ ret.m.cls = "AdapterParallelAdd"
    /\ ret.m.adapter.dim = 2
    /\ ret.m.adapter.alpha = 3
    /\ ret.value.to_wrap.weight # ret.m.to_wrap.weight
    /\ ret.value.to_wrap.weight[1][1].d = 2

\* C6: AdapterParallelAdd.forward(x) returns the pair
\* (linear_output + adapter(layernorm_output), bias) for the triple
\* (linear_output, bias, layernorm_output) the wrapped module's base forward
\* answers on x: the adapter is fed the layernorm output, not x, and the bias
\* passes through.
C6_ForwardAddsAdapterOfLayernorm ==
    ret.op = "AdapterParallelAdd.forward" =>
        /\ ret.out[1] = ret.base[1] + ret.adapter[ret.base[3]]
        /\ ret.out[2] = ret.base[2]
        /\ Len(ret.out) = 2

\* C6 witness: a forward whose layernorm output differs from x, where the
\* adapter tells the two apart, with a bias present
C6_Witness ==
    /\ ret.op = "AdapterParallelAdd.forward"
    /\ ret.x # ret.base[3]
    /\ ret.adapter[ret.x] # ret.adapter[ret.base[3]]
    /\ ret.base[2] # << >>
    /\ ret.out[1] = ret.base[1] + ret.adapter[ret.base[3]]

(***************************************************************************)
(* flops_callback.py: FLOPsMeasurementCallback.                            *)
(***************************************************************************)
MaxCfg == 2           \* hyperparameters and vocabulary sizes range over 1..MaxCfg
MaxWorld == 2         \* torch.distributed world sizes range over 1..MaxWorld

W_gpt3 == <<"g", "p", "t", "3">>
W_llama2 == <<"l", "l", "a", "m", "a", "2">>
W_llama3 == <<"l", "l", "a", "m", "a", "3">>
W_nemotron == <<"n", "e", "m", "o", "t", "r", "o", "n">>
W_mixtral == <<"m", "i", "x", "t", "r", "a", "l">>
W_bert == <<"b", "e", "r", "t">>

\* the keys of model_flops_map in insertion order, lines 167-174
model_flops_map == <<W_gpt3, W_llama2, W_llama3, W_nemotron, W_mixtral, W_bert>>

\* an int held where None is possible too
IntObj(v) == [cls |-> "int", v |-> v]

\* outcome of a call on the callback: the value returned or the exception
\* raised, the callback as the call leaves it, and the FLOPs formulas the
\* call evaluated
FReturn(value, self, called) ==
    [kind |-> "return", exc |-> "", value |-> value, self |-> self, called |-> called]
FRaise(exc, self, called) ==
    [kind |-> "raise", exc |-> exc, value |-> NoneObj, self |-> self, called |-> called]

\* the attributes __init__ reads from model_config, lines 95-106
ModelCfgAttrs ==
    {"seq_length", "hidden_size", "num_layers", "ffn_hidden_size",
     "num_attention_heads", "moe_router_topk", "num_query_groups"}

\* FLOPsMeasurementCallback.__init__, lines 85-111.  A config is a function
\* from the attributes it has to their values; reading an attribute it does
\* not have raises AttributeError.
FLOPsMeasurementCallback_init(model_config, data_config, model_name) ==
    IF ~ (ModelCfgAttrs \subseteq DOMAIN model_config)
    THEN FRaise("AttributeError", NoneObj, << >>)
    ELSE FReturn(NoneObj,
                 [cls |-> "FLOPsMeasurementCallback",
                  gbs |-> data_config.global_batch_size,
                  enc_seq_len |-> model_config.seq_length,
                  hs |-> model_config.hidden_size,
                  layers |-> model_config.num_layers,
                  ffn_hs |-> model_config.ffn_hidden_size,
                  attention_heads |-> model_config.num_attention_heads,
                  moe_router_topk |-> model_config.moe_router_topk,
                  query_groups |->
                      IF model_config.num_query_groups = NoneObj
                      THEN model_config.num_attention_heads
                      ELSE model_config.num_query_groups.v,
                  model |-> IF model_name # NoneStr THEN Lower(model_name)
                            ELSE model_name,
                  log_dir |-> NoneStr],
                 << >>)

\* 24*gbs*s*h*h + 4*gbs*s*s*h, times 3*layers, plus 6*gbs*s*h*vocab
gpt3(self, vocab_size) ==
    RatInt((24 * self.gbs * self.enc_seq_len * self.hs * self.hs
            + 4 * self.gbs * self.enc_seq_len * self.enc_seq_len * self.hs)
           * (3 * self.layers)
           + (6 * self.gbs * self.enc_seq_len * self.hs * vocab_size))

\* the formula shared by _llama2, _llama3, _nemotron and _mixtral; ffn_term
\* is the summand that differs between them
DecoderFlops(self, vocab_size, ffn_term) ==
    RatMul(RatInt(self.gbs * self.enc_seq_len * self.layers * self.hs * self.hs),
           RatAdd(RatInt(12),
           RatAdd(Rat(12 * self.query_groups, self.attention_heads),
           RatAdd(ffn_term,
           RatAdd(Rat(12 * self.enc_seq_len, self.hs),
                  Rat(6 * vocab_size, self.layers * self.hs))))))

llama2(self, vocab_size) ==
    DecoderFlops(self, vocab_size, Rat(18 * self.ffn_hs, self.hs))

llama3(self, vocab_size) ==
    DecoderFlops(self, vocab_size, Rat(18 * self.ffn_hs, self.hs))

nemotron(self, vocab_size) ==
    DecoderFlops(self, vocab_size, Rat(12 * self.ffn_hs, self.hs))

mixtral(self, vocab_size) ==
    DecoderFlops(self, vocab_size,
                 Rat(18 * self.moe_router_topk * self.ffn_hs, self.hs))

bert(self, vocab_size) ==
    RatMul(RatInt(72 * self.gbs * self.layers * self.enc_seq_len * self.hs * self.hs),
           RatAdd(RatInt(1),
           RatAdd(Rat(self.enc_seq_len, 6 * self.hs),
                  Rat(vocab_size, 12 * self.hs * self.layers))))

\* model_flops_map[model](), with LLM_VOCAB_SIZE_MAP as the environment has it
ModelFlops(model, self, vocab) ==
    IF model = W_gpt3 THEN gpt3(self, vocab[model])
    ELSE IF model = W_llama2 THEN llama2(self, vocab[model])
    ELSE IF model = W_llama3 THEN llama3(self, vocab[model])
    ELSE IF model = W_nemotron THEN nemotron(self, vocab[model])
    ELSE IF model = W_mixtral THEN mixtral(self, vocab[model])
    ELSE bert(self, vocab[model])

\* a mutant of ModelMatches: the keys in the reverse of their order
ModelMatchesReversed(model) ==
    LET n == Len(model_flops_map)
        rev == [i \in 1..n |-> model_flops_map[n + 1 - i]]
    IN  SelectSeq(rev, LAMBDA k : Contains(k, model))

\* [model for model in model_flops_map if model in self.model], line 177
ModelMatches(model) ==
    SelectSeq(model_flops_map, LAMBDA k : Contains(k, model))

\* eval_model_flops, lines 162-187; env is the process environment
eval_model_flops(self, env) ==
    LET model_matches == ModelMatches(self.model)
        model == IF self.model # NoneStr /\ Len(model_matches) > 0
                 THEN model_matches[1] ELSE self.model
        self1 == [self EXCEPT !.model = model]
    IN  IF model \notin Elems(model_flops_map)
        THEN FRaise("KeyError", self1, << >>)
        ELSE LET total_flops == ModelFlops(model, self1, env.vocab)
                 num_devices == IF env.initialized THEN env.size ELSE 1
                 flops_per_gpu == RatDiv(total_flops, RatInt(num_devices))
             IN  FReturn(<<total_flops, flops_per_gpu>>, self1, <<model>>)

\* a Python float or a list of floats, as eval_tflops_per_sec_per_gpu takes it
Float(v) == [cls |-> "float", v |-> v]
List(items) == [cls |-> "list", items |-> items]

\* sum of a sequence of rationals
RECURSIVE RatSum(_)
RatSum(s) == IF Len(s) = 0 THEN RatInt(0) ELSE RatAdd(s[1], RatSum(Tail(s)))

\* a mutant of StepWindow: the first half of the step times
StepWindowFirstHalf(step_time_arr) ==
    SubSeq(step_time_arr, 1, Len(step_time_arr) - (Len(step_time_arr) \div 2))

\* step_time_arr[len(step_time_arr) // 2 :], line 158 (indices from 1 here)
StepWindow(step_time_arr) ==
    SubSeq(step_time_arr, (Len(step_time_arr) \div 2) + 1, Len(step_time_arr))

\* np.mean: nan for an empty array
Mean(arr) ==
    IF Len(arr) = 0 THEN [cls |-> "nan"]
    ELSE Float(RatDiv(RatSum(arr), RatInt(Len(arr))))

\* flops_per_gpu / (1e12 * train_step_time), line 160: the quotient
\* flops_per_gpu / train_step_time scaled by 10^exp10; numpy division by a
\* zero mean gives inf for the positive flops_per_gpu
Tflops(flops_per_gpu, train_step_time) ==
    IF train_step_time.cls = "nan" THEN [cls |-> "nan"]
    ELSE IF train_step_time.v.n = 0 THEN [cls |-> "inf"]
    ELSE [cls |-> "float", v |-> RatDiv(flops_per_gpu, train_step_time.v),
          exp10 |-> -12]

\* eval_tflops_per_sec_per_gpu, lines 142-160
eval_tflops_per_sec_per_gpu(self, env, train_step_time) ==
    LET r == eval_model_flops(self, env)
        as_list == IF train_step_time.cls # "list" THEN <<train_step_time.v>>
                   ELSE train_step_time.items
        mean == Mean(StepWindow(as_list))
    IN  IF r.kind = "raise" THEN r
        ELSE FReturn(Tflops(r.value[2], mean), r.self, r.called)

\* a mutant of Round2: ties go up
Round2HalfUp(k) ==
    LET lo == (25 * k) \div 2
    IN  IF (25 * k) % 2 = 0 THEN lo ELSE lo + 1

\* round(x, 2) of a float x = k/8, which is exact in binary, so that ties
\* go to the even hundredth; the result is in hundredths
Round2(k) ==
    LET lo == (25 * k) \div 2
    IN  IF (25 * k) % 2 = 0 THEN lo
        ELSE IF lo % 2 = 0 THEN lo ELSE lo + 1

\* an entry of a directory: whether its name matches events*tfevents*, its
\* modification time, whether it is a regular file, and the scalar
\* summaries recorded in it (values in eighths)
File(matches, mtime, isfile, scalars) ==
    [matches |-> matches, mtime |-> mtime, isfile |-> isfile, scalars |-> scalars]

\* glob.glob(f"{path}/events*tfevents*"), line 44
Glob(files, path) ==
    IF Str(path) = files.dir THEN {f \in files.entries : f.matches} ELSE {}

W_train_step_timing == "train_step_timing in s"

\* read_tb_log, lines 31-59; files[0] after the sort is the entry with the
\* least modification time
read_tb_log(files, path, summary_name) ==
    LET found == Glob(files, path)
        first == CHOOSE f \in found : \A g \in found : f.mtime <= g.mtime
    IN  IF found = {} THEN FRaise("FileNotFoundError", NoneObj, << >>)
        ELSE IF ~ first.isfile THEN FRaise("FileNotFoundError", NoneObj, << >>)
        ELSE IF summary_name \notin DOMAIN first.scalars
        THEN FRaise("KeyError", NoneObj, << >>)
        ELSE LET summary == first.scalars[summary_name]
             IN  FReturn([i \in 1..Len(summary) |-> Rat(Round2(summary[i]), 100)],
                         NoneObj, << >>)

\* loggers of the trainer
TensorBoardLogger(log_dir) == [cls |-> "TensorBoardLogger", log_dir |-> log_dir]
OtherLogger == [cls |-> "CSVLogger", log_dir |-> W_x]

\* a mutant of on_train_start: the first TensorBoardLogger gives log_dir
on_train_startFirstLogger(self, loggers) ==
    IF self.log_dir = NoneStr
    THEN LET tb == SelectSeq(loggers, LAMBDA l : l.cls = "TensorBoardLogger")
             log_dir == IF Len(tb) = 0 THEN NoneStr ELSE tb[1].log_dir
             self1 == [self EXCEPT !.log_dir = log_dir]
         IN  IF Truthy(log_dir) THEN FReturn(NoneObj, self1, << >>)
             ELSE FRaise("AssertionError", self1, << >>)
    ELSE FReturn(NoneObj, self, << >>)

\* on_train_start, lines 113-118
on_train_start(self, loggers) ==
    IF self.log_dir = NoneStr
    THEN LET tb == SelectSeq(loggers, LAMBDA l : l.cls = "TensorBoardLogger")
             log_dir == IF Len(tb) = 0 THEN NoneStr ELSE tb[Len(tb)].log_dir
             self1 == [self EXCEPT !.log_dir = log_dir]
         IN  IF Truthy(log_dir) THEN FReturn(NoneObj, self1, << >>)
             ELSE FRaise("AssertionError", self1, << >>)
    ELSE FReturn(NoneObj, self, << >>)

\* on_train_end, lines 120-140; add_scalar is the value handed to the
\* logger of pl_module, if it has one
on_train_end(self, env, files, has_logger) ==
    LET step_time_list == read_tb_log(files, self.log_dir, W_train_step_timing)
        t == eval_tflops_per_sec_per_gpu(self, env, List(step_time_list.value))
        none == [cls |-> "nothing"]
    IN  IF step_time_list.kind = "raise"
        THEN [kind |-> "raise", exc |-> step_time_list.exc, value |-> NoneObj,
              self |-> self, called |-> << >>, path |-> Str(self.log_dir),
              add_scalar |-> none]
        ELSE IF t.kind = "raise"
        THEN [kind |-> "raise", exc |-> t.exc, value |-> NoneObj,
              self |-> t.self, called |-> << >>, path |-> Str(self.log_dir),
              add_scalar |-> none]
        ELSE [kind |-> "return", exc |-> "", value |-> NoneObj,
              self |-> t.self, called |-> t.called, path |-> Str(self.log_dir),
              add_scalar |-> IF has_logger THEN t.value ELSE none]

(***************************************************************************)
(* Inputs and actions of the callback.                                     *)
(***************************************************************************)
MaxLoggers == 2       \* trainer.loggers has at most this many loggers

N_train_gpt3_5b_x ==
    <<"t", "r", "a", "i", "n", "_", "g", "p", "t", "3", "_", "5", "b", "_", "x">>
N_Llama3_BERT == <<"L", "l", "a", "m", "a", "3", "_", "B", "E", "R", "T">>
N_t5 == <<"t", "5">>
ModelNames == {NoneStr, N_train_gpt3_5b_x, N_Llama3_BERT, N_t5}

\* model configs: every attribute present, num_query_groups an int or None,
\* or num_query_groups absent
ModelConfigs ==
    LET base(heads) ==
            [seq_length |-> MaxCfg, hidden_size |-> MaxCfg, num_layers |-> MaxCfg,
             ffn_hidden_size |-> MaxCfg, num_attention_heads |-> heads,
             moe_router_topk |-> MaxCfg]
    IN  {base(h) : h \in 1..MaxCfg}
        \cup {base(h) @@ [num_query_groups |-> g] :
                h \in 1..MaxCfg, g \in {NoneObj} \cup {IntObj(v) : v \in 1..MaxCfg}}

DataConfigs == {[global_batch_size |-> MaxCfg]}

\* LLM_VOCAB_SIZE_MAP, imported at line 24
VocabMaps == {[k \in Elems(model_flops_map) |-> v] : v \in 1..MaxCfg}

\* the process environment: torch.distributed, the vocabulary sizes and the
\* loggers of the trainer
Env(initialized, size, vocab, loggers) ==
    [initialized |-> initialized, size |-> size, vocab |-> vocab, loggers |-> loggers]

SeqsUpTo(S, n) == UNION {[1..k -> S] : k \in 0..n}

StepTimes == {Rat(k, 8) : k \in 0..MaxTime}
StepTimeArgs ==
    {Float(t) : t \in StepTimes} \cup {List(s) : s \in SeqsUpTo(StepTimes, MaxSteps)}

LoggerLists ==
    SeqsUpTo({TensorBoardLogger(EmptyStr), TensorBoardLogger(W_a),
              TensorBoardLogger(W_x), OtherLogger}, MaxLoggers)

\* recorded step times, in eighths of a second
RecordedLists ==
    {[i \in 1..n |-> i % (MaxTime + 1)] : n \in 0..MaxSteps}
    \cup {[i \in 1..n |-> MaxTime] : n \in 1..MaxSteps}

Scalars(list) == (W_train_step_timing :> list)
NoScalars == ("loss" :> <<1>>)

Dir(dir, entries) == [dir |-> dir, entries |-> entries]

\* contents of the log directory a
LogDirs ==
    {Dir(W_a, {}),
     Dir(W_a, {File(FALSE, 1, TRUE, Scalars(<<1>>))}),
     Dir(W_a, {File(TRUE, 1, FALSE, NoScalars)}),
     Dir(W_a, {File(TRUE, 1, TRUE, NoScalars)}),
     Dir(W_a, {File(TRUE, 1, TRUE, NoScalars), File(TRUE, 2, TRUE, Scalars(<<1>>))}),
     Dir(W_a, {File(TRUE, 2, TRUE, NoScalars), File(TRUE, 1, TRUE, Scalars(<<1>>))})}
    \cup {Dir(W_a, {File(TRUE, 1, TRUE, Scalars(l))}) : l \in RecordedLists}

\* the outcome of a call: the operation, its argument, the callback before
\* the call and what the call returned or raised
Outcome(op, arg, before, r) == [op |-> op, arg |-> arg, before |-> before, r |-> r]

\* FLOPsMeasurementCallback(model_config, data_config, model_name)
Construct ==
    /\ cb = NoneObj
    /\ \E model_config \in ModelConfigs, data_config \in DataConfigs,
          model_name \in ModelNames :
          LET r == FLOPsMeasurementCallback_init(model_config, data_config, model_name)
          IN  /\ cb' = r.self
              /\ fret' = Outcome("__init__",
                                 [model_config |-> model_config, model_name |-> model_name],
                                 cb, r)
    /\ UNCHANGED <<world, fs>>
    /\ UNCHANGED <<loraVars, visionVars>>

EvalModelFlops ==
    /\ cb # NoneObj
    /\ LET r == eval_model_flops(cb, world)
       IN  /\ cb' = r.self
           /\ fret' = Outcome("eval_model_flops", NoneObj, cb, r)
    /\ UNCHANGED <<world, fs>>
    /\ UNCHANGED <<loraVars, visionVars>>

\* a direct call of eval_tflops_per_sec_per_gpu, made once the callback is
\* constructed or its model family resolved
EvalTflops ==
    /\ cb # NoneObj
    /\ fret.op \in {"__init__", "eval_model_flops"}
    /\ \E train_step_time \in StepTimeArgs :
          LET r == eval_tflops_per_sec_per_gpu(cb, world, train_step_time)
          IN  /\ cb' = r.self
              /\ fret' = Outcome("eval_tflops_per_sec_per_gpu", train_step_time, cb, r)
    /\ UNCHANGED <<world, fs>>
    /\ UNCHANGED <<loraVars, visionVars>>

OnTrainStart ==
    /\ cb # NoneObj
    /\ LET r == on_train_start(cb, world.loggers)
       IN  /\ cb' = r.self
           /\ fret' = Outcome("on_train_start", world.loggers, cb, r)
    /\ UNCHANGED <<world, fs>>
    /\ UNCHANGED <<loraVars, visionVars>>

OnTrainEnd ==
    /\ cb # NoneObj
    /\ \E has_logger \in BOOLEAN :
          LET r == on_train_end(cb, world, fs, has_logger)
          IN  /\ cb' = r.self
              /\ fret' = Outcome("on_train_end", has_logger, cb, r)
    /\ UNCHANGED <<world, fs>>
    /\ UNCHANGED <<loraVars, visionVars>>

InitFlops ==
    /\ cb = NoneObj
    /\ world \in {Env(FALSE, 1, v, << >>) : v \in VocabMaps}
                 \cup {Env(TRUE, n, v, << >>) : n \in 1..MaxWorld, v \in VocabMaps}
    /\ fs = Dir(EmptyStr, {})
    /\ fret = [op |-> "none"]
    /\ LoRAIdle
    /\ VisionIdle

NextFlops ==
    \/ Construct
    \/ EvalModelFlops
    \/ EvalTflops

SpecFlops == InitFlops /\ [][NextFlops]_vars

InitLifecycle ==
    /\ cb = NoneObj
    /\ world \in {Env(FALSE, 1, v, l) :
                    v \in {[k \in Elems(model_flops_map) |-> MaxCfg]}, l \in LoggerLists}
    /\ fs \in LogDirs
    /\ fret = [op |-> "none"]
    /\ LoRAIdle
    /\ VisionIdle

NextLifecycle ==
    \/ Construct
    \/ OnTrainStart
    \/ OnTrainEnd

SpecLifecycle == InitLifecycle /\ [][NextLifecycle]_vars

(***************************************************************************)
(* Properties of FLOPsMeasurementCallback.                                 *)
(***************************************************************************)
\* key occurs in name when the case of letters is ignored
OccursIgnoringCase(key, name) ==
    \E i \in 0..(Len(name) - Len(key)) :
        \A j \in 1..Len(key) :
            \/ name[i + j] = key[j]
            \/ /\ name[i + j] \in DOMAIN UpperToLower
               /\ UpperToLower[name[i + j]] = key[j]

\* the positions in model_flops_map of the keys occurring in the model name
\* the callback holds
KeyHits(model) ==
    {i \in 1..Len(model_flops_map) :
        model # NoneStr /\ Contains(model_flops_map[i], model)}

C8_QueryGroupsDefault ==
    (/\ fret.op = "__init__"
     /\ \/ "num_query_groups" \notin DOMAIN fret.arg.model_config
        \/ fret.arg.model_config.num_query_groups = NoneObj)
    => /\ fret.r.kind = "return"
       /\ cb.query_groups = fret.arg.model_config.num_attention_heads

\* the step times of the last call as a list
GivenStepTimes == IF fret.arg.cls = "list" THEN fret.arg.items ELSE <<fret.arg.v>>

\* the mean of the elements at the indices n//2 .. n-1, counted from 0
StatedMean ==
    LET n == Len(GivenStepTimes)
        w == n - (n \div 2)
    IN  RatDiv(RatSum([j \in 1..w |-> GivenStepTimes[(n \div 2) + j]]), RatInt(w))

\* total model FLOPs over the distributed world size, 1 when the process
\* group is not initialised
StatedFlopsPerGpu ==
    RatDiv(ModelFlops(fret.r.called[1], cb, world.vocab),
           RatInt(IF world.initialized THEN world.size ELSE 1))

\* C9: for n >= 1 step times, or a scalar taken as a one-element list,
\* eval_tflops_per_sec_per_gpu returns flops_per_gpu / (1e12 * mean), where
\* mean is the mean of the elements at indices n//2 .. n-1 and flops_per_gpu
\* is the total model FLOPs divided by the distributed world size (1 when
\* torch.distributed is not initialised).
C9_SecondHalfMean ==
    (/\ fret.op = "eval_tflops_per_sec_per_gpu"
     /\ fret.r.kind = "return"
     /\ Len(GivenStepTimes) >= 1)
    => IF StatedMean.n = 0 THEN fret.r.value.cls = "inf"
       ELSE /\ fret.r.value.cls = "float"
            /\ fret.r.value.exp10 = -12
            /\ RatMul(fret.r.value.v, StatedMean) = StatedFlopsPerGpu

\* three step times, the first unlike the last, on two devices
C9_Witness ==
    /\ fret.op = "eval_tflops_per_sec_per_gpu"
    /\ fret.r.kind = "return"
    /\ fret.arg.cls = "list"
    /\ Len(fret.arg.items) = 3
    /\ fret.arg.items[1] # fret.arg.items[3]
    /\ fret.r.value.cls = "float"
    /\ world.initialized /\ world.size = 2

\* the TensorBoardLoggers among the loggers of the last on_train_start call
GivenTensorBoardLoggers ==
    SelectSeq(fret.arg, LAMBDA l : l.cls = "TensorBoardLogger")

\* whether no TensorBoardLogger is given or the last one given has an empty
\* log_dir
LastLoggerUnusable ==
    \/ Len(GivenTensorBoardLoggers) = 0
    \/ ~ Truthy(GivenTensorBoardLoggers[Len(GivenTensorBoardLoggers)].log_dir)

\* what holds in every state of the lifecycle
LifecycleStates ==
    /\ (fret.op = "__init__" /\ fret.r.kind = "return") => cb.log_dir = NoneStr
    /\ (fret.op = "on_train_start" /\ fret.before.log_dir = NoneStr) =>
          IF LastLoggerUnusable
          THEN fret.r.kind = "raise" /\ fret.r.exc = "AssertionError"
          ELSE /\ fret.r.kind = "return"
               /\ cb.log_dir =
                     GivenTensorBoardLoggers[Len(GivenTensorBoardLoggers)].log_dir
    /\ (fret.op = "on_train_start" /\ fret.before.log_dir # NoneStr) =>
          fret.r.kind = "return" /\ cb.log_dir = fret.before.log_dir
    /\ (fret.op = "on_train_start" /\ fret.r.kind = "return") =>
          cb.log_dir # NoneStr
    /\ fret.op = "on_train_end" =>
          /\ fret.r.path = Str(fret.before.log_dir)
          /\ cb.log_dir = fret.before.log_dir

\* what holds of every step of the lifecycle: a log_dir that is not None
\* stays as it is
LifecycleSteps ==
    (cb # NoneObj /\ cb.log_dir # NoneStr) => cb'.log_dir = cb.log_dir

\* C10 (amended): log_dir is None after construction; on_train_start with
\* log_dir None fails its assertion exactly when trainer.loggers has no
\* TensorBoardLogger or the last TensorBoardLogger has an empty log_dir, and
\* otherwise leaves log_dir equal to the log_dir of the last
\* TensorBoardLogger; a log_dir that is not None is left unchanged by every
\* later call, so on_train_end after a successful on_train_start reads from
\* that directory and never from None.
C10_LogDirLifecycle == [](LifecycleStates) /\ [][LifecycleSteps]_vars

\* the last of two TensorBoardLoggers gave the directory on_train_end read
C10_Witness ==
    /\ world.loggers = <<TensorBoardLogger(W_x), TensorBoardLogger(W_a)>>
    /\ fret.op = "on_train_end"
    /\ fret.r.kind = "return"
    /\ fret.r.path = W_a

\* C10 (as stated): on_train_start with log_dir None fails its assertion
\* exactly when no TensorBoardLogger with a non-empty log_dir is among
\* trainer.loggers.
C10_FailsIffNoUsableLogger ==
    (fret.op = "on_train_start" /\ fret.before.log_dir = NoneStr) =>
        (fret.r.kind = "raise"
         <=> ~ \E i \in 1..Len(fret.arg) :
                  /\ fret.arg[i].cls = "TensorBoardLogger"
                  /\ Truthy(fret.arg[i].log_dir))


(***************************************************************************)
(* read_tb_log called on its own.                                          *)
(***************************************************************************)
\* log directories in which a directory entry matches the pattern beside an
\* events file, and directories holding any recorded list
LogDirsMixed ==
    {Dir(W_a, {File(TRUE, 1, FALSE, NoScalars), File(TRUE, 2, TRUE, Scalars(<<1>>))}),
     Dir(W_a, {File(TRUE, 2, FALSE, NoScalars), File(TRUE, 1, TRUE, Scalars(<<1>>))})}
    \cup {Dir(W_a, {File(TRUE, 1, TRUE, Scalars(l))}) :
             l \in SeqsUpTo(0..MaxTime, MaxSteps)}

SummaryNames == {W_train_step_timing, "loss", "lr"}

\* read_tb_log(path, summary_name)
ReadTbLog ==
    /\ \E path \in {W_a, W_x}, summary_name \in SummaryNames :
          fret' = Outcome("read_tb_log",
                          [path |-> path, summary_name |-> summary_name],
                          cb, read_tb_log(fs, path, summary_name))
    /\ UNCHANGED <<cb, world, fs>>
    /\ UNCHANGED <<loraVars, visionVars>>

InitReadLog ==
    /\ cb = NoneObj
    /\ world = [initialized |-> FALSE]
    /\ fs \in LogDirs \cup LogDirsMixed
    /\ fret = [op |-> "none"]
    /\ LoRAIdle
    /\ VisionIdle

NextReadLog == ReadTbLog

SpecReadLog == InitReadLog /\ [][NextReadLog]_vars

\* the entries of the directory read whose names match events*tfevents*
MatchingEntries ==
    IF fret.arg.path = fs.dir THEN {f \in fs.entries : f.matches} ELSE {}

\* the matching entry with the least modification time
OldestEntry ==
    CHOOSE f \in MatchingEntries : \A g \in MatchingEntries : f.mtime <= g.mtime

\* v is the hundredth nearest to k eighths, the even one of two equally near
NearestHundredth(v, k) ==
    \E h \in 0..(13 * k + 1) :
        /\ v = Rat(h, 100)
        /\ Abs(8 * h - 100 * k) <= 4
        /\ Abs(8 * h - 100 * k) = 4 => h % 2 = 0

\* the returned list holds the recorded scalars in order, each rounded
ReturnsRounded(recorded) ==
    /\ fret.r.kind = "return"
    /\ Len(fret.r.value) = Len(recorded)
    /\ \A i \in 1..Len(recorded) : NearestHundredth(fret.r.value[i], recorded[i])

\* C11 (amended): read_tb_log raises FileNotFoundError when no entry of the
\* directory matches events*tfevents* or the matching entry with the least
\* modification time is not a regular file; raises KeyError when that file
\* has no scalar summary named summary_name; and otherwise returns the
\* summary's values in recorded order, one per recorded scalar, each rounded
\* to 2 decimals.
C11_OldestEntryRead ==
    fret.op = "read_tb_log" =>
        IF MatchingEntries = {} \/ ~ OldestEntry.isfile
        THEN fret.r.kind = "raise" /\ fret.r.exc = "FileNotFoundError"
        ELSE IF fret.arg.summary_name \notin DOMAIN OldestEntry.scalars
        THEN fret.r.kind = "raise" /\ fret.r.exc = "KeyError"
        ELSE ReturnsRounded(OldestEntry.scalars[fret.arg.summary_name])

\* three recorded values, one of them a tie between two hundredths, read back
C11_Witness ==
    /\ fret.op = "read_tb_log"
    /\ fret.r.kind = "return"
    /\ fret.r.value = <<Rat(12, 100), Rat(25, 100), Rat(0, 100)>>

\* the regular files among the matching entries
MatchingFiles == {f \in MatchingEntries : f.isfile}

\* the matching regular file with the least modification time
OldestFile ==
    CHOOSE f \in MatchingFiles : \A g \in MatchingFiles : f.mtime <= g.mtime

\* C11 (as stated): read_tb_log raises FileNotFoundError when the directory
\* contains no file matching events*tfevents*, raises KeyError when the
\* chosen events file has no scalar summary named summary_name, and
\* otherwise returns the rounded values in recorded order.
C11_FileNotFoundIffNoFile ==
    fret.op = "read_tb_log" =>
        IF MatchingFiles = {}
        THEN fret.r.kind = "raise" /\ fret.r.exc = "FileNotFoundError"
        ELSE IF fret.arg.summary_name \notin DOMAIN OldestFile.scalars
        THEN fret.r.kind = "raise" /\ fret.r.exc = "KeyError"
        ELSE ReturnsRounded(OldestFile.scalars[fret.arg.summary_name])


(***************************************************************************)
(* vision.py: create_vision_mask_tensor.  A 1D tensor is a sequence; its   *)
(* positions are counted from 0 as in the code.                            *)
(***************************************************************************)
MaxTokens == 5        \* tokens has at most this many elements
MaxTokenId == 1       \* token ids range over 0..MaxTokenId

\* (tokens == vision_token_id).nonzero().squeeze(), line 171: the positions
\* holding the vision token, ascending
VisionTokenLocations(toks, id) ==
    LET hit(i) == toks[i] = id
        idx == SelectSeq([i \in 1..Len(toks) |-> i], hit)
    IN  [j \in 1..Len(idx) |-> idx[j] - 1]

\* the masks of lines 177-187, before consecutive vision tokens are handled
PairwiseMasks(toks, locs) ==
    IF Len(locs) = 1 THEN << <<locs[1], Len(toks)>> >>
    ELSE [i \in 1..(Len(locs) - 1) |-> <<locs[i], locs[i + 1]>>]
         \o << <<locs[Len(locs)], Len(toks)>> >>

\* the loop of lines 191-194 over reversed(vision_masks), from mask i down
RECURSIVE ReversedLoop(_, _, _)
ReversedLoop(masks, i, last_mask_end) ==
    IF i = 0 THEN masks
    ELSE LET end == IF masks[i][1] = masks[i][2] - 1 THEN last_mask_end
                    ELSE masks[i][2]
         IN  ReversedLoop([masks EXCEPT ![i][2] = end], i - 1, end)

\* a mutant of HandleConsecutive: last_mask_end starts at the end of the
\* first mask
HandleConsecutiveFromFirst(masks) ==
    ReversedLoop(masks, Len(masks), masks[1][2])

\* lines 189-194: last_mask_end starts at vision_masks[-1][1]
HandleConsecutive(masks) ==
    ReversedLoop(masks, Len(masks), masks[Len(masks)][2])

\* a tensor of rank 2
Tensor(rows, cols, data) == [shape |-> <<rows, cols>>, data |-> data]

\* create_vision_mask_tensor, lines 159-196
create_vision_mask_tensor(toks, id) ==
    LET vision_token_locations == VisionTokenLocations(toks, id)
    IN  IF Len(vision_token_locations) = 0 THEN Tensor(0, 2, << >>)
        ELSE LET masks == HandleConsecutive(PairwiseMasks(toks, vision_token_locations))
             IN  Tensor(Len(masks), 2, masks)

TokenTensors == SeqsUpTo(0..MaxTokenId, MaxTokens)

CreateVisionMaskTensor ==
    /\ vision_masks' = [op |-> "create_vision_mask_tensor",
                        value |-> create_vision_mask_tensor(tokens, vision_token_id)]
    /\ UNCHANGED <<tokens, vision_token_id>>
    /\ UNCHANGED <<loraVars, flopsVars>>

InitVision ==
    /\ tokens \in TokenTensors
    /\ vision_token_id \in 0..MaxTokenId
    /\ vision_masks = [op |-> "none"]
    /\ LoRAIdle
    /\ FlopsIdle

NextVision == CreateVisionMaskTensor

SpecVision == InitVision /\ [][NextVision]_vars

\* the positions of tokens, counted from 0, that hold the vision token
Occurrences == {i \in 0..(Len(tokens) - 1) : tokens[i + 1] = vision_token_id}

\* C12: create_vision_mask_tensor returns an empty 0 x 2 tensor when tokens
\* holds no vision token, and otherwise one [start, end] row per occurrence
\* of the vision token, in position order, with start the position of the
\* occurrence, start < end <= len(tokens), and the end of the last row
\* equal to len(tokens).
C12_OneRowPerVisionToken ==
    vision_masks.op = "create_vision_mask_tensor" =>
        LET t == vision_masks.value
            n == Len(t.data)
        IN  IF Occurrences = {} THEN t.shape = <<0, 2>> /\ n = 0
            ELSE /\ t.shape = <<Cardinality(Occurrences), 2>>
                 /\ n = Cardinality(Occurrences)
                 /\ \A r \in 1..n :
                       /\ Len(t.data[r]) = 2
                       /\ t.data[r][1] \in Occurrences
                       /\ t.data[r][1] < t.data[r][2]
                       /\ t.data[r][2] <= Len(tokens)
                 /\ \A r \in 1..(n - 1) : t.data[r][1] < t.data[r + 1][1]
                 /\ t.data[n][2] = Len(tokens)

\* two consecutive vision tokens followed by text
C12_Witness ==
    /\ vision_masks.op = "create_vision_mask_tensor"
    /\ Len(vision_masks.value.data) = 2
    /\ vision_masks.value.data[1][1] + 1 = vision_masks.value.data[2][1]
    /\ vision_masks.value.data[1][2] = Len(tokens)
    /\ vision_masks.value.data[2][1] + 1 < Len(tokens)

=============================================================================
